---- MODULE Spec2Model ----
(***************************************************************************)
(* A model of the shopless.js Cart (src/src/index.tsx): the line items,    *)
(* the option-constraint resolver of add(), the shipping and tax getters,  *)
(* persistence to browser storage and the asynchronous add()/restore()     *)
(* calls with their suspension points.                                     *)
(*                                                                         *)
(* Conventions of the model                                                *)
(*  - Money (decimal.js-light Decimal) is an exact number of cents; a      *)
(*    value that is not a whole number of cents is a rational               *)
(*    [num, den] of cents.  Decimal's 20 significant digits are not        *)
(*    modelled: arithmetic is exact.                                       *)
(*  - A quantity (a Decimal too) is a whole number of 1/QtyScale units.    *)
(*  - A JS value that may be null/undefined is a sequence of length <= 1:  *)
(*    <<>> is null/undefined, <<x>> is x.                                  *)
(*  - A getter or method that can throw is an operator that returns a      *)
(*    record with a field "threw".                                         *)
(***************************************************************************)
EXTENDS Integers, Sequences, FiniteSets, Bags, TLC

\* ------------------------------------------------------------------ bounds
\* At most this many add()/restore() calls are suspended at a time.
MaxCalls == 2
\* The quantities (in 1/QtyScale units, absolute values) held by the cart plus
\* those of the suspended add() calls never exceed this.
MaxQty == 4
\* The option selections examined for the product "/c" name at most this many
\* skus.
MaxSelected == 2

\* ------------------------------------------------------- values and Decimal
\* Quantities are fixed-point: the integer q stands for the Decimal q/QtyScale.
QtyScale == 2

\* An optional numeric field that is absent (min?, max?, step?, value?).
Undefined == -1000000

None == <<>>
Some(x) == <<x>>
IsSome(o) == Len(o) > 0
Get(o) == o[1]

\* An option value: number | boolean | undefined.
Num(n) == [t |-> "number", n |-> n, b |-> FALSE]
Bool(b) == [t |-> "boolean", n |-> 0, b |-> b]
Undef == [t |-> "undefined", n |-> 0, b |-> FALSE]

\* JS ToNumber of a number or a boolean (true -> 1, false -> 0), as the
\* relational operators >=, <= apply it.
ToNumber(v) == IF v.t = "boolean" THEN (IF v.b THEN 1 ELSE 0) ELSE v.n

Abs(n) == IF n < 0 THEN -n ELSE n

RECURSIVE Gcd(_, _)
Gcd(a, b) == IF b = 0 THEN a ELSE Gcd(b, a % b)

\* A rational number of cents, in lowest terms with a positive denominator.
Rat(n, d) ==
  LET g == Gcd(Abs(n), Abs(d))
      s == IF d < 0 THEN -1 ELSE 1
  IN  [num |-> (s * n) \div g, den |-> (s * d) \div g]

RatOfInt(n) == [num |-> n, den |-> 1]
RatAdd(x, y) == Rat(x.num * y.den + y.num * x.den, x.den * y.den)
RatMul(x, y) == Rat(x.num * y.num, x.den * y.den)
RatDiv(x, y) == Rat(x.num * y.den, x.den * y.num)
RatGtZero(x) == x.num > 0

\* Decimal.toDecimalPlaces(2, Decimal.ROUND_HALF_UP) of a rational number of
\* cents: the nearest whole cent, a tie going away from zero.
RoundHalfUp(x) ==
  IF x.num >= 0
    THEN (2 * x.num + x.den) \div (2 * x.den)
    ELSE -((2 * (-x.num) + x.den) \div (2 * x.den))

\* ------------------------------------------------- product descriptors
\* Constraint (NumberConstraint | BooleanConstraint | IncompatibleConstraint |
\* AdjustmentConstraint) as one record shape; a field a kind does not have
\* holds Undefined, "" or Undef.
NumberC(value, min, max, step, price, currency) ==
  [kind |-> "number", value |-> IF value = Undefined THEN Undef ELSE Num(value),
   min |-> min, max |-> max, step |-> step, price |-> price,
   currency |-> currency, option |-> "", pred |-> "", predN |-> 0, unique |-> ""]

BooleanC(value, price, currency) ==
  [kind |-> "boolean", value |-> Bool(value),
   min |-> Undefined, max |-> Undefined, step |-> Undefined, price |-> price,
   currency |-> currency, option |-> "", pred |-> "", predN |-> 0, unique |-> ""]

IncompatibleC(option) ==
  [kind |-> "incompatible", value |-> Undef,
   min |-> Undefined, max |-> Undefined, step |-> Undefined, price |-> 0,
   currency |-> "", option |-> option, pred |-> "", predN |-> 0, unique |-> ""]

\* pred is "", "eq", "gt", "ge", "lt" or "le" (the key of c.value), predN its
\* number; unique is "" when the adjustment declares no uniqueness tag.
AdjustmentC(option, pred, predN, unique, price, currency) ==
  [kind |-> "adjustment", value |-> Undef,
   min |-> Undefined, max |-> Undefined, step |-> Undefined, price |-> price,
   currency |-> currency, option |-> option, pred |-> pred, predN |-> predN,
   unique |-> unique]

JsonLdOffer(priceCurrency, price) == [priceCurrency |-> priceCurrency, price |-> price]

JsonLdOption(sku, name, constraints) ==
  [sku |-> sku, name |-> name, constraints |-> constraints]

\* offersIsArray: whether data.offers is an array of offers or one offer.
JsonLd(sku, name, offersIsArray, offers, options) ==
  [sku |-> sku, name |-> name, offersIsArray |-> offersIsArray,
   offers |-> offers, options |-> options]

SizeOption ==
  JsonLdOption("size", "Size",
    << NumberC(Undefined, 1, 2, 1, 250, "EUR"),
       NumberC(Undefined, 1, 2, 1, 300, "USD") >>)

\* The options of the product "/c", priced in EUR.  size: a USD constraint first,
\* then a fixed value 3 (or 20..30), the even numbers of 0..10, any number of
\* 0..10; its price is adjusted when gift is selected and, under the tag
\* "promo", when engrave >= 2.  engrave: 0..3, adjusted under the same tag
\* when size > 4 and, with no tag, when size = 3.  gift: true or anything,
\* adjusted when size is selected.  wrap: incompatible with engrave.
CustomSize ==
  JsonLdOption("size", "Size",
    << NumberC(Undefined, 0, 10, 1, 999, "USD"),
       NumberC(3, 20, 30, Undefined, 100, "EUR"),
       NumberC(Undefined, 0, 10, 2, 250, "EUR"),
       NumberC(Undefined, 0, 10, Undefined, 400, "EUR"),
       AdjustmentC("gift", "", 0, "", 50, "EUR"),
       AdjustmentC("engrave", "ge", 2, "promo", 30, "EUR"),
       AdjustmentC("engrave", "lt", 2, "promo", 40, "USD") >>)

CustomEngrave ==
  JsonLdOption("engrave", "Engraving",
    << NumberC(Undefined, 0, 3, 1, 100, "EUR"),
       AdjustmentC("size", "gt", 4, "promo", 20, "EUR"),
       AdjustmentC("size", "eq", 3, "", 7, "EUR") >>)

CustomGift ==
  JsonLdOption("gift", "Gift",
    << BooleanC(TRUE, 200, "EUR"),
       BooleanC(FALSE, 0, "EUR"),
       AdjustmentC("size", "", 0, "", 5, "EUR") >>)

CustomWrap ==
  JsonLdOption("wrap", "Wrapping",
    << IncompatibleC("engrave"),
       BooleanC(FALSE, 150, "EUR") >>)

\* The product pages of the shop: what fetchJSONLD(url) extracts from each when
\* the request succeeds (None: the page holds no product descriptor).  "/z" has
\* one offer, not an array of offers, and its price is 0; "/s" has one offer, in
\* USD; "/c" lists two offers in EUR and two in USD; the descriptor of "/k" has no
\* sku (the empty string stands for the absent key).
Urls == {"/a", "/z", "/n", "/c", "/s", "/k"}

Catalog(url) ==
  CASE url = "/a" ->
         Some(JsonLd("A", "Alpha", TRUE,
                     << JsonLdOffer("EUR", 1005), JsonLdOffer("USD", 1200) >>,
                     << SizeOption >>))
    [] url = "/z" ->
         Some(JsonLd("Z", "Zero", FALSE, << JsonLdOffer("EUR", 0) >>, << >>))
    [] url = "/c" ->
         Some(JsonLd("C", "Custom", TRUE,
                     << JsonLdOffer("USD", 900), JsonLdOffer("EUR", 800),
                        JsonLdOffer("EUR", 2000), JsonLdOffer("USD", 50) >>,
                     << CustomSize, CustomEngrave, CustomGift, CustomWrap >>))
    [] url = "/s" ->
         Some(JsonLd("S", "Single", FALSE, << JsonLdOffer("USD", 500) >>, << >>))
    [] url = "/k" ->
         Some(JsonLd("", "Kit", TRUE, << JsonLdOffer("EUR", 300) >>, << >>))
    [] OTHER -> None

\* ------------------------------------------------------ option resolution
\* The buyer's selections (the options argument of add) are a sequence of
\* [sku, value] with distinct skus, in Object.entries order.
Selection(sku, value) == [sku |-> sku, value |-> value]

\* `sku in options`
InSelections(selections, sku) == \E i \in 1..Len(selections) : selections[i].sku = sku

\* options[sku], for a sku that is in the selections
SelectedValue(selections, sku) ==
  LET i == CHOOSE j \in 1..Len(selections) : selections[j].sku = sku
  IN  selections[i].value

\* value === c.value
StrictEquals(v, w) ==
  /\ v.t = w.t
  /\ v.t = "number" => v.n = w.n
  /\ v.t = "boolean" => v.b = w.b

\* The callback of option.constraints.find: "match", "no", or "throw" (new
\* Decimal(value) of a boolean value raises).
ConstraintMatches(c, value, priceCurrency) ==
  CASE c.kind = "number" ->
         IF priceCurrency # c.currency THEN "no"
         ELSE IF value.t = "undefined" \/ StrictEquals(value, c.value) THEN "match"
         ELSE IF /\ (c.min = Undefined \/ ToNumber(value) >= c.min)
                 /\ (c.max = Undefined \/ ToNumber(value) <= c.max)
           THEN IF c.step = Undefined THEN "match"
                ELSE IF value.t = "boolean" THEN "throw"
                ELSE IF Abs(value.n) % c.step = 0 THEN "match" ELSE "no"
           ELSE "no"
    [] c.kind = "boolean" ->
         IF /\ priceCurrency = c.currency
            /\ (~(c.value.t = "boolean" /\ c.value.b) \/ StrictEquals(value, c.value))
           THEN "match" ELSE "no"
    [] OTHER -> "no"

\* option.constraints.find(...): the index of the first matching constraint, 0
\* when there is none, -1 when the callback raised before one matched.
RECURSIVE FindConstraint(_, _, _, _)
FindConstraint(constraints, i, value, priceCurrency) ==
  IF i > Len(constraints) THEN 0
  ELSE LET m == ConstraintMatches(constraints[i], value, priceCurrency)
       IN  IF m = "match" THEN i
           ELSE IF m = "throw" THEN -1
           ELSE FindConstraint(constraints, i + 1, value, priceCurrency)

\* The value predicate of an adjustment on the dependency's number.
PredicateHolds(c, dep) ==
  CASE c.pred = "eq" -> dep = c.predN
    [] c.pred = "gt" -> dep > c.predN
    [] c.pred = "ge" -> dep >= c.predN
    [] c.pred = "lt" -> dep < c.predN
    [] c.pred = "le" -> dep <= c.predN
    [] OTHER -> TRUE

\* An adjustment loop that never looks at the value predicate; C25 tells it
\* from the one below.
AdjustmentAppliesMutant(c, value, selections, priceCurrency, used) ==
  /\ c.kind = "adjustment"
  /\ c.currency = priceCurrency
  /\ InSelections(selections, c.option)
  /\ ~(value.t = "boolean" /\ ~value.b)
  /\ ~(c.unique # "" /\ c.unique \in used)
  /\ SelectedValue(selections, c.option) # Bool(FALSE)

\* Whether the loop over option.constraints applies adjustment c to an option
\* selected with `value`, given the tags already used.
AdjustmentApplies(c, value, selections, priceCurrency, used) ==
  /\ c.kind = "adjustment"
  /\ c.currency = priceCurrency
  /\ InSelections(selections, c.option)
  /\ ~(value.t = "boolean" /\ ~value.b)
  /\ ~(c.unique # "" /\ c.unique \in used)
  /\ LET dep == SelectedValue(selections, c.option)
     IN  IF c.pred # "" /\ dep.t = "number"
           THEN PredicateHolds(c, dep.n)
           ELSE ~(dep.t = "boolean" /\ ~dep.b)

\* An adjustment loop in which a tagged adjustment consumes its tag even when
\* it is skipped; C26 tells it from the one below.
RECURSIVE AdjustMutant(_, _, _, _, _, _, _)
AdjustMutant(constraints, i, price, used, value, selections, priceCurrency) ==
  IF i > Len(constraints) THEN [price |-> price, used |-> used]
  ELSE LET c == constraints[i]
       IN  AdjustMutant(constraints, i + 1,
             IF AdjustmentApplies(c, value, selections, priceCurrency, used)
               THEN price + c.price ELSE price,
             IF c.kind = "adjustment" /\ c.unique # "" THEN used \cup {c.unique} ELSE used,
             value, selections, priceCurrency)

\* The price-adjustment loop from constraint i on: the price and the used tags.
RECURSIVE Adjust(_, _, _, _, _, _, _)
Adjust(constraints, i, price, used, value, selections, priceCurrency) ==
  IF i > Len(constraints) THEN [price |-> price, used |-> used]
  ELSE LET c == constraints[i]
       IN  IF AdjustmentApplies(c, value, selections, priceCurrency, used)
             THEN Adjust(constraints, i + 1, price + c.price,
                         IF c.unique # "" THEN used \cup {c.unique} ELSE used,
                         value, selections, priceCurrency)
             ELSE Adjust(constraints, i + 1, price, used,
                         value, selections, priceCurrency)

\* A lookup that falls back to the first option of the product; C27 tells it
\* from the one below.
FindOptionMutant(options, sku) ==
  IF \E i \in 1..Len(options) : options[i].sku = sku
    THEN CHOOSE i \in 1..Len(options) :
           /\ options[i].sku = sku
           /\ \A j \in 1..(i - 1) : options[j].sku # sku
    ELSE 1

\* data.options.find(o => o.sku === sku): the index of the option, 0 for none.
FindOption(options, sku) ==
  IF \E i \in 1..Len(options) : options[i].sku = sku
    THEN CHOOSE i \in 1..Len(options) :
           /\ options[i].sku = sku
           /\ \A j \in 1..(i - 1) : options[j].sku # sku
    ELSE 0

HasIncompatible(option, selections) ==
  \E i \in 1..Len(option.constraints) :
    /\ option.constraints[i].kind = "incompatible"
    /\ InSelections(selections, option.constraints[i].option)

\* An emitted option of a line item.
Option(sku, value, price, name) ==
  [sku |-> sku, value |-> value, price |-> price, name |-> name]

\* Object.entries(options).map(...) from selection i on: acc holds the options
\* emitted so far, used the uniqueness tags consumed so far.
RECURSIVE ResolveOptions(_, _, _, _, _, _)
ResolveOptions(dataOptions, selections, i, used, acc, priceCurrency) ==
  IF i > Len(selections) THEN [ok |-> TRUE, err |-> "", options |-> acc]
  ELSE
    LET sku == selections[i].sku
        value == selections[i].value
        o == FindOption(dataOptions, sku)
    IN  IF o = 0 THEN [ok |-> FALSE, err |-> "UnknownOption", options |-> << >>]
        ELSE IF HasIncompatible(dataOptions[o], selections)
          THEN [ok |-> FALSE, err |-> "IncompatibleSelection", options |-> << >>]
        ELSE
          LET cs == dataOptions[o].constraints
              k == FindConstraint(cs, 1, value, priceCurrency)
          IN  IF k = -1 THEN [ok |-> FALSE, err |-> "InvalidArgument", options |-> << >>]
              ELSE IF k = 0
                THEN [ok |-> FALSE, err |-> "UnsupportedValue", options |-> << >>]
              ELSE
                LET a == Adjust(cs, 1, cs[k].price, used, value, selections, priceCurrency)
                IN  ResolveOptions(dataOptions, selections, i + 1, a.used,
                      Append(acc, Option(sku, value, a.price, dataOptions[o].name)),
                      priceCurrency)

\* A choice of the last offer in the currency; C21 tells it from the one below.
PickOfferMutant(data, currency) ==
  IF \E i \in 1..Len(data.offers) : data.offers[i].priceCurrency = currency
    THEN Some(data.offers[CHOOSE i \in 1..Len(data.offers) :
                /\ data.offers[i].priceCurrency = currency
                /\ \A j \in (i + 1)..Len(data.offers) :
                     data.offers[j].priceCurrency # currency])
    ELSE None

\* The offer add() prices the line item with: None when there is none.
PickOffer(data, currency) ==
  IF data.offersIsArray
    THEN IF \E i \in 1..Len(data.offers) : data.offers[i].priceCurrency = currency
           THEN Some(data.offers[CHOOSE i \in 1..Len(data.offers) :
                       /\ data.offers[i].priceCurrency = currency
                       /\ \A j \in 1..(i - 1) : data.offers[j].priceCurrency # currency])
           ELSE None
    ELSE IF data.offers[1].priceCurrency = currency THEN Some(data.offers[1]) ELSE None

\* --------------------------------------------------------------- LineItem
\* A LineItem constructor that accepts every price; C3 tells it from the
\* constructor below.
LineItemThrowsMutant(data) == FALSE

\* A LineItem constructor that refuses negative prices only, as its error
\* message has it; C20 tells it from the constructor below.
LineItemThrowsNegMutant(data) == data.price < 0

\* new LineItem(data): raises when the price is not positive.
LineItemThrows(data) == ~(data.price > 0)

LineItem(sku, url, quantity, price, name, meta, options) ==
  [sku |-> sku, url |-> url, quantity |-> quantity, price |-> price,
   name |-> name, meta |-> meta, options |-> options]

RECURSIVE SumPrices(_, _)
SumPrices(options, acc) ==
  IF options = << >> THEN acc
  ELSE SumPrices(Tail(options), acc + Head(options).price)

\* A total that drops the fraction of a cent; C19 tells it from the getter
\* below.
LineItemTotalMutant(item) ==
  (item.quantity * SumPrices(item.options, item.price)) \div QtyScale

\* get total(): quantity * (price + the option prices), rounded to whole cents.
LineItemTotal(item) ==
  RoundHalfUp(Rat(item.quantity * SumPrices(item.options, item.price), QtyScale))

\* JSON.stringify(options): the sku, value, price and name of each option, in
\* order (the keys every option of a LineItem has).
StringifyOptions(options) ==
  [i \in 1..Len(options) |->
     << options[i].sku, options[i].value, options[i].price, options[i].name >>]

\* An equality that compares meta as well (the comparison the NOTICE in equals
\* leaves open); C2 tells it from the equality below.
LineItemEqualsMutant(lhs, rhs) ==
  /\ lhs.url = rhs.url
  /\ lhs.price = rhs.price
  /\ lhs.name = rhs.name
  /\ lhs.meta = rhs.meta
  /\ [i \in 1..Len(lhs.options) |->
        << lhs.options[i].sku, lhs.options[i].value, lhs.options[i].price,
           lhs.options[i].name >>]
       = [i \in 1..Len(rhs.options) |->
            << rhs.options[i].sku, rhs.options[i].value, rhs.options[i].price,
               rhs.options[i].name >>]

\* lhs.equals(rhs): meta and quantity are not compared.
LineItemEquals(lhs, rhs) ==
  /\ lhs.url = rhs.url
  /\ lhs.price = rhs.price
  /\ lhs.name = rhs.name
  /\ StringifyOptions(lhs.options) = StringifyOptions(rhs.options)

\* --------------------------------------------------------------- Settings
ShippingMethod(key, name, price) == [key |-> key, name |-> name, price |-> price]

\* price: Record<currency, number>; a currency the method has no price in is
\* absent from the record.
CountrySettings(enabled, name, taxrate, shippingMethods) ==
  [enabled |-> enabled, name |-> name, taxrate |-> taxrate,
   shippingMethods |-> shippingMethods]

\* What fetchSettings() returns when the request succeeds.  shippingMethods is
\* in Object.entries order.
TheSettings ==
  [DE |-> CountrySettings(TRUE, "Deutschland", 19,
            << ShippingMethod("standard", "Standard", [EUR |-> 500, USD |-> 600]),
               ShippingMethod("express", "Express", [EUR |-> 1500]) >>),
   FR |-> CountrySettings(TRUE, "France", 20,
            << ShippingMethod("0", "Colis", [EUR |-> 700, USD |-> 800]) >>)]

Countries == {"DE", "FR", "XX"}

\* The keys selectShippingMethod and shipping are called with.
MethodKeys == {"standard", "0", "bogus"}

\* The array index a property key denotes: -1 when the key is no array index.
ArrayIndex(key) ==
  CASE key = "0" -> 0
    [] key = "1" -> 1
    [] key = "2" -> 2
    [] OTHER -> -1

Address(country, countryName) == [country |-> country, countryName |-> countryName]

\* ------------------------------------------------------------------ state
VARIABLES
  currency,        \* Cart.currency
  stackLineItems,  \* Cart.stackLineItems
  settings,        \* Cart.settings: None or Some(Settings)
  cache,           \* the urls Cart.cache holds an entry for (its value is Catalog(url))
  lineItems,       \* Cart.lineItems
  email,           \* Cart.email
  invoiceAddress,  \* Cart.invoiceAddress
  shippingAddress, \* Cart.shippingAddress
  shippingMethod,  \* Cart.shippingMethod
  storage,         \* window.localStorage / sessionStorage [LOCAL_STORAGE_KEY]
  calls            \* the add() and restore() calls suspended on a request

vars == << currency, stackLineItems, settings, cache, lineItems, email,
           invoiceAddress, shippingAddress, shippingMethod, storage, calls >>

\* Cart.valueOf(), as JSON.stringify writes it and JSON.parse reads it back.
CartValue(cur, items, invoice, shipping, mail) ==
  [currency |-> cur, lineItems |-> items, invoiceAddress |-> invoice,
   shippingAddress |-> shipping,
   email |-> IF IsSome(mail) /\ Get(mail) # "" THEN mail ELSE None]

\* A snapshot left in storage by an earlier session: the shop sold in USD then
\* and the size option had another display name.
OldSnapshot ==
  CartValue("USD",
    << LineItem("A", "/a", 2, 1200, "Alpha", "m0",
                << Option("size", Num(1), 300, "Groesse") >>) >>,
    None, Some(Address("FR", "France")), Some("old@example.org"))

\* A snapshot in storage that holds a line item whose price is 0 (written by
\* another version of the shop or edited by hand).
ZeroPriceSnapshot ==
  CartValue("EUR",
    << LineItem("A", "/a", 2, 1005, "Alpha", "m0", << >>),
       LineItem("Z", "/z", 2, 0, "Zero", "m0", << >>) >>,
    None, Some(Address("DE", "Deutschland")), None)

\* ---------------------------------------------------------------- getters
RECURSIVE SumTotals(_, _)
SumTotals(items, acc) ==
  IF items = << >> THEN acc
  ELSE SumTotals(Tail(items), acc + LineItemTotal(Head(items)))

\* get subtotal()
Subtotal == RoundHalfUp(RatOfInt(SumTotals(lineItems, 0)))

\* shippingMethods(country): throws without settings; {} (isArray FALSE) for a
\* country the settings do not have; else the array of {key, name, price}, where
\* price is method.price[this.currency] (None when undefined).
ShippingMethods(country) ==
  IF settings = None
    THEN [threw |-> TRUE, isArray |-> FALSE, methods |-> << >>]
  ELSE IF country \notin DOMAIN Get(settings)
    THEN [threw |-> FALSE, isArray |-> FALSE, methods |-> << >>]
  ELSE
    LET ms == Get(settings)[country].shippingMethods
    IN  [threw |-> FALSE, isArray |-> TRUE,
         methods |->
           [i \in 1..Len(ms) |->
              [key |-> ms[i].key, name |-> ms[i].name,
               price |-> IF currency \in DOMAIN ms[i].price
                           THEN Some(ms[i].price[currency]) ELSE None]]]

\* `method in this.shippingMethods(country)`: property lookup on what
\* shippingMethods returned, an array (its indices and "length") or {}.
MethodIn(method, sm) ==
  /\ sm.isArray
  /\ \/ ArrayIndex(method) \in 0..(Len(sm.methods) - 1)
     \/ method = "length"

\* sm[method] for what shippingMethods returned: "element" (an element of the
\* array), "length" (the array's length, a number), or "undefined".
Rule(sm, method) ==
  IF sm.isArray /\ ArrayIndex(method) \in 0..(Len(sm.methods) - 1) THEN "element"
  ELSE IF sm.isArray /\ method = "length" THEN "length"
  ELSE "undefined"

\* shipping(method).  A truthy rule is priced with
\* new Decimal(rule.price[this.currency]): rule.price is the number (or
\* undefined) shippingMethods put there, not the currency-keyed record, so the
\* argument is undefined (or the lookup a TypeError) and the call raises.
Shipping(method) ==
  IF shippingAddress = None THEN [threw |-> FALSE, value |-> 0]
  ELSE
    LET sm == ShippingMethods(Get(shippingAddress).country)
        rule == Rule(sm, method)
    IN  IF sm.threw THEN [threw |-> TRUE, value |-> 0]
        ELSE IF rule = "element" \/ (rule = "length" /\ Len(sm.methods) > 0)
          THEN [threw |-> TRUE, value |-> 0]
        ELSE [threw |-> FALSE, value |-> 0]

\* A calcTax that rounds each amount to whole cents; C10 tells it from the
\* calcTax below.
calcTaxMutant(brutto, taxrate) ==
  IF RatGtZero(taxrate)
    THEN LET t == RatDiv(taxrate, RatOfInt(100))
             taxPart == RatDiv(t, RatAdd(t, RatOfInt(1)))
         IN  RatOfInt(RoundHalfUp(RatMul(brutto, taxPart)))
    ELSE RatOfInt(0)

\* calcTax(brutto, taxrate)
calcTax(brutto, taxrate) ==
  IF RatGtZero(taxrate)
    THEN LET t == RatDiv(taxrate, RatOfInt(100))
             taxPart == RatDiv(t, RatAdd(t, RatOfInt(1)))
         IN  RatMul(brutto, taxPart)
    ELSE RatOfInt(0)

\* The map/reduce of get tax(): the sum of calcTax(lineItem.total, taxrate).
RECURSIVE SumTax(_, _, _)
SumTax(items, taxrate, acc) ==
  IF items = << >> THEN acc
  ELSE SumTax(Tail(items), taxrate,
              RatAdd(acc, calcTax(RatOfInt(LineItemTotal(Head(items))), taxrate)))

\* A shipping tax that taxes only half of the shipping cost; C12 tells it from
\* the one below.
ShippingTaxMutant(part, subtotal, shipping, taxrate) ==
  calcTax(RatMul(RatDiv(part, RatMul(subtotal, RatOfInt(2))), shipping), taxrate)

\* The body of the loop over the rate buckets in get tax() (lines 485-489):
\* calcTax(part.div(subtotal).mul(shipping), rate), for the one bucket there
\* is (every line item is taxed at the country's rate).
ShippingTax(part, subtotal, shipping, taxrate) ==
  calcTax(RatMul(RatDiv(part, subtotal), shipping), taxrate)

\* get tax(), with `address` for this.shippingAddress.
TaxAt(address) ==
  IF address = None THEN [threw |-> FALSE, value |-> 0]
  ELSE IF Subtotal = 0 THEN [threw |-> FALSE, value |-> 0]
  ELSE IF settings = None THEN [threw |-> TRUE, value |-> 0]
  ELSE IF Get(address).country \notin DOMAIN Get(settings)
    THEN [threw |-> FALSE, value |-> 0]
  ELSE
    LET taxrate == RatOfInt(Get(settings)[Get(address).country].taxrate)
        part == RatOfInt(SumTotals(lineItems, 0))
        tax == SumTax(lineItems, taxrate, RatOfInt(0))
        shipping == Shipping(Get(address).country)
    IN  IF shipping.threw THEN [threw |-> TRUE, value |-> 0]
        ELSE IF shipping.value > 0
          THEN [threw |-> FALSE,
                value |-> RoundHalfUp(RatAdd(tax,
                            ShippingTax(part, RatOfInt(Subtotal),
                                        RatOfInt(shipping.value), taxrate)))]
        ELSE [threw |-> FALSE, value |-> RoundHalfUp(tax)]

\* A tax that falls back on the invoice address when no shipping address is set;
\* C9 tells it from the getter below.
TaxMutant ==
  TaxAt(IF shippingAddress = None THEN invoiceAddress ELSE shippingAddress)

\* get tax()
Tax == TaxAt(shippingAddress)

\* get total()
Total ==
  IF IsSome(shippingMethod) /\ Get(shippingMethod) # ""
    THEN LET s == Shipping(Get(shippingMethod))
         IN  IF s.threw THEN [threw |-> TRUE, value |-> 0]
             ELSE [threw |-> FALSE, value |-> Subtotal + s.value]
    ELSE [threw |-> FALSE, value |-> Subtotal]

\* countryName(code): raises for a country the loaded settings do not have.
CountryNameThrows(code) == settings # None /\ code \notin DOMAIN Get(settings)

CountryName(code) ==
  IF settings = None THEN code ELSE Get(settings)[code].name

\* ------------------------------------------------------------ persistence
\* A saveCart that runs before the handler has changed the line items; C17
\* tells it from the one below.
SaveCartMutant(cur, items, invoice, shipping, mail) ==
  storage' = Some(CartValue(cur, lineItems, invoice, shipping, mail))

\* saveCart(cart), given the fields the handler leaves the cart with.
SaveCart(cur, items, invoice, shipping, mail) ==
  storage' = Some(CartValue(cur, items, invoice, shipping, mail))

\* -------------------------------------------------------------------- add
\* The arguments add() is called with: url, qty (in 1/QtyScale units), meta and
\* the option selections.
AddInput(url, qty, meta, options) ==
  [url |-> url, qty |-> qty, meta |-> meta, options |-> options]

AddInputs ==
  { AddInput("/a", 2, "m1", << >>),
    AddInput("/a", 1, "m2", << >>),
    AddInput("/a", 0, "m1", << >>),
    AddInput("/a", 2, "m1", << Selection("size", Num(1)) >>) }

\* A suspended call: op is "add" or "restore"; pc is the request it waits for,
\* "settings" (fetchSettings), "fetching" (fetchJSONLD) or "cached" (the
\* already resolved fetchProductData promise of a cache hit); data is the
\* parsed snapshot a restore() holds.
Call(op, pc, in, data) ==
  [op |-> op, pc |-> pc, url |-> in.url, qty |-> in.qty, meta |-> in.meta,
   options |-> in.options, data |-> data]

NoInput == AddInput("", 0, "", << >>)

\* A removal by value: the first line item equal to the one at index i goes;
\* C16 tells it from the removal below.
RemoveAtMutant(seq, i) ==
  LET k == CHOOSE j \in 1..Len(seq) :
             /\ seq[j].url = seq[i].url /\ seq[j].price = seq[i].price
             /\ seq[j].options = seq[i].options
             /\ \A h \in 1..(j - 1) :
                  ~(/\ seq[h].url = seq[i].url /\ seq[h].price = seq[i].price
                    /\ seq[h].options = seq[i].options)
  IN  SubSeq(seq, 1, k - 1) \o SubSeq(seq, k + 1, Len(seq))

\* this.lineItems.splice(ix, 1)
RemoveAt(seq, i) == SubSeq(seq, 1, i - 1) \o SubSeq(seq, i + 1, Len(seq))

RECURSIVE QtyOfItems(_)
QtyOfItems(items) ==
  IF items = << >> THEN 0 ELSE Abs(Head(items).quantity) + QtyOfItems(Tail(items))

\* The suspended calls are a bag: their order carries no meaning.
RECURSIVE QtyOfCallSet(_, _)
QtyOfCallSet(cs, bag) ==
  IF cs = {} THEN 0
  ELSE LET c == CHOOSE x \in cs : TRUE
       IN  Abs(c.qty) * CopiesIn(c, bag) + QtyOfCallSet(cs \ {c}, bag)

QtyOfCalls(bag) == QtyOfCallSet(BagToSet(bag), bag)

Suspend(bag, c) == bag (+) SetToBag({c})
Resume(bag, c) == bag (-) SetToBag({c})

\* The index of the first line item equal to item, 0 when there is none.
FirstEqual(items, item) ==
  IF \E i \in 1..Len(items) : LineItemEquals(items[i], item)
    THEN CHOOSE i \in 1..Len(items) :
           /\ LineItemEquals(items[i], item)
           /\ \A j \in 1..(i - 1) : ~LineItemEquals(items[j], item)
    ELSE 0

\* An add() that always pushes; C1 tells it from lines 263-277 below.
StackOrPushMutant(items, item) == Append(items, item)

\* An add() that writes the quantity it computed from a scan made before the
\* equal line item was there (a lost update); C28 tells it from lines 263-277.
StackOrPushStaleMutant(items, item) ==
  LET k == IF stackLineItems THEN FirstEqual(items, item) ELSE 0
  IN  IF k > 0
        THEN [items EXCEPT ![k].quantity = item.quantity]
        ELSE Append(items, item)

\* lines 263-277 of add(): stack onto the first equal line item, or push.
StackOrPush(items, item) ==
  LET k == IF stackLineItems THEN FirstEqual(items, item) ELSE 0
  IN  IF k > 0
        THEN [items EXCEPT ![k].quantity = @ + item.quantity]
        ELSE Append(items, item)

\* The LineItemValue add() builds (lines 253-261) for call c from descriptor
\* data, its offer and the resolved options.
NewLineItem(c, data, offer, lineOptions) ==
  LineItem(data.sku, c.url, c.qty, offer.price, data.name, c.meta, lineOptions)

\* add() from `if (!data)` to the new LineItem (lines 132-261), for the
\* descriptor data (None when null): whether it gets there, the error it raises
\* otherwise, and the line item it builds.
BuildLineItem(c, data) ==
  IF data = None THEN [ok |-> FALSE, err |-> "NotFound", item |-> << >>]
  ELSE
    LET offer == PickOffer(Get(data), currency)
    IN  IF offer = None
          THEN [ok |-> FALSE, err |-> "NoMatchingOffer", item |-> << >>]
        ELSE
          LET r == ResolveOptions(Get(data).options, c.options, 1, {}, << >>,
                                  Get(offer).priceCurrency)
              item == NewLineItem(c, Get(data), Get(offer), r.options)
          IN  IF ~r.ok THEN [ok |-> FALSE, err |-> r.err, item |-> << >>]
              ELSE IF LineItemThrows(item)
                THEN [ok |-> FALSE, err |-> "InvalidPrice", item |-> << >>]
              ELSE [ok |-> TRUE, err |-> "", item |-> item]

\* add() from `if (!data)` on (lines 132-279): whether it completes and the line
\* items it leaves.
AddResult(c, data) ==
  LET b == BuildLineItem(c, data)
  IN  IF b.ok
        THEN [ok |-> TRUE, err |-> "", items |-> StackOrPush(lineItems, b.item)]
        ELSE [ok |-> FALSE, err |-> b.err, items |-> lineItems]

\* The rest of add() once the descriptor is there: the line items and the save.
AddFinish(c, data) ==
  LET r == AddResult(c, data)
  IN  /\ lineItems' = r.items
      /\ IF r.ok
           THEN SaveCart(currency, r.items, invoiceAddress, shippingAddress, email)
           ELSE UNCHANGED storage

\* fetchProductData(url) up to its first suspension, for call c leaving the
\* other suspended calls `rest`: a cache hit resumes add() with the cached
\* descriptor (one microtask later: at once when resumeNow, the call being the
\* continuation of a completed request), a miss issues the request.
FetchProductData(c, rest, resumeNow) ==
  IF c.url \in cache
    THEN IF resumeNow
           THEN /\ calls' = rest
                /\ AddFinish(c, Catalog(c.url))
           ELSE /\ calls' = Suspend(rest, [c EXCEPT !.pc = "cached"])
                /\ UNCHANGED << lineItems, storage >>
    ELSE /\ calls' = Suspend(rest, [c EXCEPT !.pc = "fetching"])
         /\ UNCHANGED << lineItems, storage >>

\* add(url, qty, meta, options), up to its first suspension.
AddCall(in) ==
  /\ BagCardinality(calls) < MaxCalls
  /\ QtyOfItems(lineItems) + QtyOfCalls(calls) + Abs(in.qty) <= MaxQty
  /\ IF in.qty = 0 THEN UNCHANGED vars
     ELSE
       /\ IF settings = None
            THEN /\ calls' = Suspend(calls, Call("add", "settings", in, None))
                 /\ UNCHANGED << lineItems, storage >>
            ELSE FetchProductData(Call("add", "", in, None), calls, FALSE)
       /\ UNCHANGED << currency, stackLineItems, settings, cache, email,
                       invoiceAddress, shippingAddress, shippingMethod >>

\* The settings request of a suspended add() completes.
AddSettingsDone(c, ok) ==
  /\ BagIn(c, calls)
  /\ c.op = "add" /\ c.pc = "settings"
  /\ IF ok
       THEN /\ settings' = Some(TheSettings)
            /\ FetchProductData(c, Resume(calls, c), TRUE)
       ELSE /\ calls' = Resume(calls, c)
            /\ UNCHANGED << settings, lineItems, storage >>
  /\ UNCHANGED << currency, stackLineItems, cache, email, invoiceAddress,
                  shippingAddress, shippingMethod >>

\* The product request of a suspended add() completes: on success
\* fetchProductData caches the descriptor (null too) and add() goes on.
AddFetchDone(c, ok) ==
  /\ BagIn(c, calls)
  /\ c.op = "add" /\ c.pc = "fetching"
  /\ calls' = Resume(calls, c)
  /\ IF ok
       THEN /\ cache' = cache \cup {c.url}
            /\ AddFinish(c, Catalog(c.url))
       ELSE UNCHANGED << cache, lineItems, storage >>
  /\ UNCHANGED << currency, stackLineItems, settings, email, invoiceAddress,
                  shippingAddress, shippingMethod >>

\* add() resumes after a cache hit.
AddResume(c) ==
  /\ BagIn(c, calls)
  /\ c.op = "add" /\ c.pc = "cached"
  /\ calls' = Resume(calls, c)
  /\ AddFinish(c, Catalog(c.url))
  /\ UNCHANGED << currency, stackLineItems, settings, cache, email, invoiceAddress,
                  shippingAddress, shippingMethod >>

\* ---------------------------------------------------------------- restore
\* data.lineItems.filter(data => data.sku)
RECURSIVE FilterSku(_)
FilterSku(items) ==
  IF items = << >> THEN << >>
  ELSE IF Head(items).sku # "" THEN << Head(items) >> \o FilterSku(Tail(items))
  ELSE FilterSku(Tail(items))

\* restore() after the settings are there (lines 108-116): new LineItem of a
\* stored item whose price is not positive raises and nothing is assigned.
RestoreFinish(data) ==
  LET kept == FilterSku(data.lineItems)
  IN  IF \E i \in 1..Len(kept) : LineItemThrows(kept[i])
        THEN UNCHANGED << lineItems, invoiceAddress, shippingAddress, email >>
        ELSE /\ lineItems' = kept
             /\ invoiceAddress' = data.invoiceAddress
             /\ shippingAddress' = data.shippingAddress
             /\ email' = data.email

\* restore(), up to its suspension on fetchSettings.
RestoreCall ==
  /\ settings = None => BagCardinality(calls) < MaxCalls
  /\ IF storage = None THEN UNCHANGED vars
     ELSE
       LET data == Get(storage)
       IN  /\ currency' = IF data.currency # currency /\ Len(data.lineItems) > 0
                            THEN data.currency ELSE currency
           /\ IF settings = None
                THEN /\ calls' = Suspend(calls, Call("restore", "settings", NoInput, Some(data)))
                     /\ UNCHANGED << lineItems, invoiceAddress, shippingAddress, email >>
                ELSE /\ RestoreFinish(data)
                     /\ UNCHANGED calls
           /\ UNCHANGED << stackLineItems, settings, cache, shippingMethod, storage >>

\* A restore() that goes on to assign the stored cart when its settings
\* request failed; C29 tells it from the one below.
RestoreSettingsDoneMutant(c, ok) ==
  /\ BagIn(c, calls)
  /\ c.op = "restore" /\ c.pc = "settings"
  /\ calls' = Resume(calls, c)
  /\ settings' = IF ok THEN Some(TheSettings) ELSE settings
  /\ RestoreFinish(Get(c.data))
  /\ UNCHANGED << currency, stackLineItems, cache, shippingMethod, storage >>

\* The settings request of a suspended restore() completes.
RestoreSettingsDone(c, ok) ==
  /\ BagIn(c, calls)
  /\ c.op = "restore" /\ c.pc = "settings"
  /\ calls' = Resume(calls, c)
  /\ IF ok
       THEN /\ settings' = Some(TheSettings)
            /\ RestoreFinish(Get(c.data))
       ELSE UNCHANGED << settings, lineItems, invoiceAddress, shippingAddress, email >>
  /\ UNCHANGED << currency, stackLineItems, cache, shippingMethod, storage >>

\* ------------------------------------------------- synchronous operations
\* remove(lineItem) of the line item at index i.
Remove(i) ==
  /\ i \in 1..Len(lineItems)
  /\ lineItems' = RemoveAt(lineItems, i)
  /\ SaveCart(currency, lineItems', invoiceAddress, shippingAddress, email)
  /\ UNCHANGED << currency, stackLineItems, settings, cache, email, invoiceAddress,
                  shippingAddress, shippingMethod, calls >>

\* remove(lineItem) of a line item the cart does not hold: indexOf is -1.
RemoveAbsent == UNCHANGED vars

\* A reset() that leaves the selected method; C15 tells it from the one below.
ResetMutant ==
  /\ lineItems' = << >>
  /\ invoiceAddress' = None
  /\ shippingAddress' = None
  /\ email' = None
  /\ storage' = Some(CartValue(currency, << >>, None, None, None))
  /\ UNCHANGED << currency, stackLineItems, settings, cache, calls, shippingMethod >>

\* reset()
Reset ==
  /\ lineItems' = << >>
  /\ invoiceAddress' = None
  /\ shippingAddress' = None
  /\ email' = None
  /\ shippingMethod' = None
  /\ SaveCart(currency, << >>, None, None, None)
  /\ UNCHANGED << currency, stackLineItems, settings, cache, calls >>

\* The address setInvoiceAddress / setShippingAddress is called with: None, or a
\* country (the other fields of AddressValue play no part).
AddressInputs == {None} \cup { Some(c) : c \in Countries }

\* new Address(data) followed by the countryName assignment, when it does not
\* raise.
NamedAddress(data) == Some(Address(Get(data), CountryName(Get(data))))

\* setInvoiceAddress(data): countryName raises after the address is assigned.
SetInvoiceAddress(data) ==
  /\ IF data = None
       THEN /\ invoiceAddress' = None
            /\ SaveCart(currency, lineItems, None, shippingAddress, email)
       ELSE IF CountryNameThrows(Get(data))
         THEN /\ invoiceAddress' = Some(Address(Get(data), ""))
              /\ UNCHANGED storage
         ELSE /\ invoiceAddress' = NamedAddress(data)
              /\ SaveCart(currency, lineItems, invoiceAddress', shippingAddress, email)
  /\ UNCHANGED << currency, stackLineItems, settings, cache, lineItems, email,
                  shippingAddress, shippingMethod, calls >>

\* setShippingAddress(data): as above, and the selected method is cleared
\* after countryName returned.
SetShippingAddress(data) ==
  /\ IF data = None
       THEN /\ shippingAddress' = None
            /\ shippingMethod' = None
            /\ SaveCart(currency, lineItems, invoiceAddress, None, email)
       ELSE IF CountryNameThrows(Get(data))
         THEN /\ shippingAddress' = Some(Address(Get(data), ""))
              /\ UNCHANGED << shippingMethod, storage >>
         ELSE /\ shippingAddress' = NamedAddress(data)
              /\ shippingMethod' = None
              /\ SaveCart(currency, lineItems, invoiceAddress, shippingAddress', email)
  /\ UNCHANGED << currency, stackLineItems, settings, cache, lineItems, email,
                  invoiceAddress, calls >>

Emails == {"a@example.org"}

\* setEmail(email)
SetEmail(mail) ==
  /\ email' = Some(mail)
  /\ SaveCart(currency, lineItems, invoiceAddress, shippingAddress, email')
  /\ UNCHANGED << currency, stackLineItems, settings, cache, lineItems,
                  invoiceAddress, shippingAddress, shippingMethod, calls >>

\* selectShippingMethod(method): what the call does in the current state:
\* whether it raises, and the selected method it leaves.  Without a shipping
\* address the Error is built but not thrown and `this.shippingAddress!.country`
\* raises a TypeError; without settings shippingMethods raises.
SelectShippingMethodResult(method) ==
  IF shippingAddress = None THEN [threw |-> TRUE, shippingMethod |-> shippingMethod]
  ELSE
    LET sm == ShippingMethods(Get(shippingAddress).country)
    IN  IF sm.threw THEN [threw |-> TRUE, shippingMethod |-> shippingMethod]
        ELSE IF MethodIn(method, sm)
          THEN [threw |-> FALSE, shippingMethod |-> Some(method)]
        ELSE [threw |-> FALSE, shippingMethod |-> shippingMethod]

SelectShippingMethod(method) ==
  /\ shippingMethod' = SelectShippingMethodResult(method).shippingMethod
  /\ UNCHANGED << currency, stackLineItems, settings, cache, lineItems, email,
                  invoiceAddress, shippingAddress, storage, calls >>

\* ------------------------------------------------------------------ order
\* window.location.origin
Origin == "https://shop.example"

\* The payment order() is called with: opts.payment {method, id, meta}.
Payment(method, id, meta) == [method |-> method, id |-> id, meta |-> meta]
Payments == { Payment("card", "pay-1", None) }

\* A line item as orderPayload() lists it (lines 301-315): the url is made
\* absolute (no url of the catalog starts with "http"), meta is left out.
PayloadItem(item) ==
  [sku |-> item.sku, url |-> Origin \o item.url, name |-> item.name,
   quantity |-> item.quantity, price |-> item.price,
   total |-> LineItemTotal(item), options |-> item.options]

\* An orderPayload() that does not ask for a selected method; C13 tells it from
\* the one below.
OrderPayloadResultMutant ==
  IF shippingAddress = None
    THEN [threw |-> TRUE, err |-> "MissingShippingAddress", payload |-> None]
  ELSE IF Tax.threw \/ Total.threw
    THEN [threw |-> TRUE, err |-> "TypeError", payload |-> None]
  ELSE [threw |-> FALSE, err |-> "",
        payload |-> Some([currency |-> currency, shippingMethod |-> shippingMethod])]

\* orderPayload(): raises without a shipping address or a selected method, and
\* when the tax or total getter raises.  `shipping: this.shipping` puts the
\* method itself, a function, in the payload, not an amount: JSON.stringify
\* leaves it out, so the serialized payload has no shipping entry (None).
OrderPayloadResult ==
  IF shippingAddress = None
    THEN [threw |-> TRUE, err |-> "MissingShippingAddress", payload |-> None]
  ELSE IF ~(IsSome(shippingMethod) /\ Get(shippingMethod) # "")
    THEN [threw |-> TRUE, err |-> "MissingShippingMethod", payload |-> None]
  ELSE IF Tax.threw \/ Total.threw
    THEN [threw |-> TRUE, err |-> "TypeError", payload |-> None]
  ELSE [threw |-> FALSE, err |-> "",
        payload |->
          Some([currency |-> currency,
                lineItems |-> [i \in 1..Len(lineItems) |-> PayloadItem(lineItems[i])],
                email |-> email,
                shippingAddress |-> shippingAddress,
                invoiceAddress |-> invoiceAddress,
                shippingMethod |-> shippingMethod,
                shipping |-> None,
                tax |-> Tax.value,
                total |-> Total.value])]

\* order(opts) up to its fetch: the request body it posts, unless it raises
\* first (the body is built before fetch is called).
OrderResult(payment) ==
  IF shippingAddress = None
    THEN [threw |-> TRUE, err |-> "MissingShippingAddress", request |-> None]
  ELSE IF OrderPayloadResult.threw
    THEN [threw |-> TRUE, err |-> OrderPayloadResult.err, request |-> None]
  ELSE [threw |-> FALSE, err |-> "",
        request |-> Some([payload |-> Get(OrderPayloadResult.payload),
                          paymentMethod |-> payment.method,
                          paymentId |-> payment.id,
                          paymentMeta |-> payment.meta])]

\* order(opts), up to its suspension on the POST to endpoint + 'orders'.
Order(payment) ==
  LET r == OrderResult(payment)
  IN  IF r.threw THEN UNCHANGED vars
      ELSE /\ BagCardinality(calls) < MaxCalls
           /\ calls' = Suspend(calls, Call("order", "order", NoInput, r.request))
           /\ UNCHANGED << currency, stackLineItems, settings, cache, lineItems,
                           email, invoiceAddress, shippingAddress, shippingMethod,
                           storage >>

\* The responses of the order endpoint: status and body.
Statuses == {201, 200, 500}
Bodies == {"declined"}

\* How order() settles on a response (lines 341-343): it raises an Error whose
\* message is the response body unless the status is 201.
OrderOutcome(status, body) ==
  IF status # 201 THEN [threw |-> TRUE, err |-> body]
  ELSE [threw |-> FALSE, err |-> ""]

\* The POST of a suspended order() is answered: the cart is left as it is.
OrderDone(c, status, body) ==
  /\ BagIn(c, calls)
  /\ c.op = "order" /\ c.pc = "order"
  /\ calls' = Resume(calls, c)
  /\ UNCHANGED << currency, stackLineItems, settings, cache, lineItems, email,
                  invoiceAddress, shippingAddress, shippingMethod, storage >>

\* ------------------------------------------------------------ specification
\* new Cart(opts, settings?): with or without stackLineItems, with or without
\* settings handed in; the storage is empty or holds an earlier session's cart.
Init ==
  /\ currency = "EUR"
  /\ stackLineItems \in BOOLEAN
  /\ settings \in {None, Some(TheSettings)}
  /\ cache = {}
  /\ lineItems = << >>
  /\ email = None
  /\ invoiceAddress = None
  /\ shippingAddress = None
  /\ shippingMethod = None
  /\ storage \in {None, Some(OldSnapshot)}
  /\ calls = EmptyBag

\* No call is suspended: the caller awaits each call before the next operation.
Idle == calls = EmptyBag

\* The requests of the suspended calls complete, each with success or failure.
Completions ==
  \/ \E c \in BagToSet(calls), ok \in BOOLEAN : AddSettingsDone(c, ok)
  \/ \E c \in BagToSet(calls), ok \in BOOLEAN : AddFetchDone(c, ok)
  \/ \E c \in BagToSet(calls) : AddResume(c)
  \/ \E c \in BagToSet(calls), ok \in BOOLEAN : RestoreSettingsDone(c, ok)

\* The line-item operations of the cart; calls overlap, up to MaxCalls of them
\* are suspended while other operations run.
Next ==
  \/ \E in \in AddInputs : AddCall(in)
  \/ RestoreCall
  \/ \E i \in 1..Len(lineItems) : Remove(i)
  \/ RemoveAbsent
  \/ Reset
  \/ Completions

Spec == Init /\ [][Next]_vars

\* add() calls that fail, and one that does not: an unsupported option value, a
\* product whose price is 0, a page without a descriptor.
FailingAddInputs ==
  { AddInput("/a", 2, "m1", << >>),
    AddInput("/a", 2, "m1", << Selection("size", Num(9)) >>),
    AddInput("/z", 2, "m1", << >>),
    AddInput("/n", 2, "m1", << >>) }

\* The line-item operations with the add() calls that fail.
NextFailing ==
  \/ \E in \in FailingAddInputs : AddCall(in)
  \/ RestoreCall
  \/ \E i \in 1..Len(lineItems) : Remove(i)
  \/ RemoveAbsent
  \/ Reset
  \/ Completions

SpecFailing == Init /\ [][NextFailing]_vars

\* The add() calls of the specification below.
FewAddInputs ==
  { AddInput("/a", 2, "m1", << >>),
    AddInput("/a", -2, "m2", << >>) }

\* new Cart(opts, settings?) over a storage that holds one of the snapshots.
InitStored ==
  /\ currency = "EUR"
  /\ stackLineItems \in BOOLEAN
  /\ settings \in {None, Some(TheSettings)}
  /\ cache = {}
  /\ lineItems = << >>
  /\ email = None
  /\ invoiceAddress = None
  /\ shippingAddress = None
  /\ shippingMethod = None
  /\ storage \in {Some(OldSnapshot), Some(ZeroPriceSnapshot)}
  /\ calls = EmptyBag

\* The line-item operations with the add() calls that fail, over a stored
\* snapshot.
SpecStored == InitStored /\ [][NextFailing]_vars

\* add() calls for the products with several offers and with one offer.
CustomAddInputs ==
  { AddInput("/c", 2, "m1", << >>),
    AddInput("/c", 2, "m1", << Selection("size", Num(4)) >>),
    AddInput("/s", 2, "m1", << >>) }

\* add() calls that select options of the product "/c": size and engrave, gift
\* deselected, an option the product does not have.
ResolveAddInputs ==
  { AddInput("/c", 2, "m1", << Selection("size", Num(5)), Selection("engrave", Num(2)) >>),
    AddInput("/c", 2, "m1", << Selection("gift", Bool(FALSE)), Selection("size", Num(3)) >>),
    AddInput("/c", 2, "m1", << Selection("size", Num(11)), Selection("nope", Num(1)) >>) }

\* The line-item operations with add() calls drawn from `inputs`, each call
\* awaited.
NextAwaited(inputs) ==
  \/ Idle /\ \E in \in inputs : AddCall(in)
  \/ Idle /\ RestoreCall
  \/ Idle /\ \E i \in 1..Len(lineItems) : Remove(i)
  \/ Idle /\ RemoveAbsent
  \/ Idle /\ Reset
  \/ Completions

NextCustom == NextAwaited(CustomAddInputs)

SpecCustom == Init /\ [][NextCustom]_vars

NextResolve == NextAwaited(ResolveAddInputs)

SpecResolve == Init /\ [][NextResolve]_vars

\* Every operation of the cart, each call awaited.
NextCheckout ==
  \/ Idle /\ \E in \in FewAddInputs : AddCall(in)
  \/ Idle /\ RestoreCall
  \/ Idle /\ \E i \in 1..Len(lineItems) : Remove(i)
  \/ Idle /\ RemoveAbsent
  \/ Idle /\ Reset
  \/ Idle /\ \E data \in AddressInputs : SetInvoiceAddress(data)
  \/ Idle /\ \E data \in AddressInputs : SetShippingAddress(data)
  \/ Idle /\ \E mail \in Emails : SetEmail(mail)
  \/ Idle /\ \E method \in MethodKeys : SelectShippingMethod(method)
  \/ Idle /\ \E payment \in Payments : Order(payment)
  \/ \E c \in BagToSet(calls), status \in Statuses, body \in Bodies :
       OrderDone(c, status, body)
  \/ Completions

SpecCheckout == Init /\ [][NextCheckout]_vars

\* ------------------------------------------------------- C1: stacking
\* The step in which the suspended add() c gets its descriptor and runs to its
\* end: the product request succeeds, the cache hit resumes, or the settings
\* request succeeds with the descriptor cached.
AddRuns(c) ==
  \/ AddFetchDone(c, TRUE)
  \/ AddResume(c)
  \/ (AddSettingsDone(c, TRUE) /\ c.url \in cache)

\* C1: with stackLineItems enabled, a successful add() whose new line item
\* equals an existing one leaves the number of line items unchanged and raises
\* that item's quantity by exactly the added quantity, nothing else changing;
\* with stackLineItems disabled, every successful add() appends exactly one
\* line item, the new one.
C1_StackOrAppend ==
  [][\A c \in BagToSet(calls) :
       LET b == BuildLineItem(c, Catalog(c.url))
       IN  (AddRuns(c) /\ b.ok) =>
             /\ (stackLineItems /\ \E i \in 1..Len(lineItems) :
                                      LineItemEquals(lineItems[i], b.item))
                  => /\ Len(lineItems') = Len(lineItems)
                     /\ \E k \in 1..Len(lineItems) :
                          /\ LineItemEquals(lineItems[k], b.item)
                          /\ lineItems' =
                               [lineItems EXCEPT ![k].quantity = @ + c.qty]
             /\ ~stackLineItems
                  => /\ Len(lineItems') = Len(lineItems) + 1
                     /\ lineItems' = Append(lineItems, b.item)]_vars

\* Two add("/a") of quantities 1 and 1/2 with different meta were stacked onto
\* one line item, which is persisted.
C1_Witness_Stacked ==
  /\ stackLineItems
  /\ Len(lineItems) = 1
  /\ lineItems[1].url = "/a"
  /\ lineItems[1].quantity = 3
  /\ storage = Some(CartValue(currency, lineItems, invoiceAddress, shippingAddress, email))

\* ------------------------------------------------------- C2: equality
\* The line items add() would build in the current state for its inputs.
NewItems ==
  { BuildLineItem(Call("add", "", in, None), Catalog(in.url)).item :
      in \in { x \in AddInputs :
                 BuildLineItem(Call("add", "", x, None), Catalog(x.url)).ok } }

\* The line items of the cart together with those add() would build.
KnownItems == { lineItems[i] : i \in 1..Len(lineItems) } \cup NewItems

\* The options of two line items agree in sku, value and price, in order.
SameOptions(a, b) ==
  /\ Len(a.options) = Len(b.options)
  /\ \A i \in 1..Len(a.options) :
       /\ a.options[i].sku = b.options[i].sku
       /\ a.options[i].value = b.options[i].value
       /\ a.options[i].price = b.options[i].price

\* The options of two line items agree in name, in order.
SameOptionNames(a, b) ==
  /\ Len(a.options) = Len(b.options)
  /\ \A i \in 1..Len(a.options) : a.options[i].name = b.options[i].name

\* C2 (as amended): two line items are equal for stacking iff their url, unit
\* price, name and option lists (the sku, value, price and name of each option,
\* in order) are identical; meta and quantity play no part.
C2_EqualsIffNamed ==
  \A a \in KnownItems, b \in KnownItems :
    LineItemEquals(a, b) <=>
      /\ a.url = b.url
      /\ a.price = b.price
      /\ a.name = b.name
      /\ SameOptions(a, b)
      /\ SameOptionNames(a, b)

\* C2 (as stated): two line items are equal for stacking iff their url, unit
\* price, name and option lists (the sku, value and price of each option, in
\* order) are identical.
C2_EqualsIff ==
  \A a \in KnownItems, b \in KnownItems :
    LineItemEquals(a, b) <=>
      /\ a.url = b.url
      /\ a.price = b.price
      /\ a.name = b.name
      /\ SameOptions(a, b)

\* The cart holds two line items that are equal and differ in meta and quantity,
\* and one more that differs from them in its options only.
C2_Witness_EqualDespiteMeta ==
  \E i, j, k \in 1..Len(lineItems) :
    /\ LineItemEquals(lineItems[i], lineItems[j])
    /\ lineItems[i].meta # lineItems[j].meta
    /\ lineItems[i].quantity # lineItems[j].quantity
    /\ ~LineItemEquals(lineItems[i], lineItems[k])
    /\ lineItems[i].url = lineItems[k].url
    /\ lineItems[i].price = lineItems[k].price

\* ------------------------------------------------------- C3: failing add
\* The call c cannot succeed on the descriptor of its product in the current
\* state: there is none, none of its offers is in the cart's currency, the
\* offer's price is not positive, or the option selections are rejected.
MustFail(c) ==
  LET data == Catalog(c.url)
  IN  \/ data = None
      \/ \A i \in 1..Len(Get(data).offers) :
           Get(data).offers[i].priceCurrency # currency
      \/ \E i \in 1..Len(Get(data).offers) :
           /\ Get(data).offers[i].priceCurrency = currency
           /\ Get(data).offers[i].price <= 0
      \/ ~ResolveOptions(Get(data).options, c.options, 1, {}, << >>, currency).ok

\* The step in which the suspended add() c fails: its request fails, or it runs
\* on a descriptor it cannot succeed on.
AddFails(c) ==
  \/ AddSettingsDone(c, FALSE)
  \/ AddFetchDone(c, FALSE)
  \/ (AddRuns(c) /\ MustFail(c))

\* C3 (as amended): an add() that fails leaves the line items, the addresses,
\* the email, the selected method, the currency and the persisted snapshot as
\* they were; the descriptor cache gains at most the entry of the requested
\* product.
C3_FailedAddKeepsCart ==
  [][\A c \in BagToSet(calls) :
       AddFails(c) =>
         /\ UNCHANGED << lineItems, email, invoiceAddress, shippingAddress,
                         shippingMethod, currency, storage >>
         /\ cache \subseteq cache'
         /\ cache' \subseteq cache \cup {c.url}]_vars

\* C3 (as stated): an add() that fails leaves the line items, the addresses, the
\* email, the persisted snapshot and the descriptor cache as they were.
C3_FailedAddKeepsAll ==
  [][\A c \in BagToSet(calls) :
       AddFails(c) =>
         UNCHANGED << lineItems, email, invoiceAddress, shippingAddress,
                      shippingMethod, currency, storage, cache >>]_vars

\* add() has failed on "/n" (no descriptor) and on "/z" (price 0): both are
\* cached, no call is suspended, and the cart and the storage are untouched.
C3_Witness_FailedAdds ==
  /\ {"/n", "/z"} \subseteq cache
  /\ "/a" \notin cache
  /\ currency = "EUR"
  /\ calls = EmptyBag
  /\ lineItems = << >>
  /\ storage = None

\* ------------------------------------------------------- C4: the cache
\* The product requests for url u in flight.
RECURSIVE FetchingOf(_, _, _)
FetchingOf(cs, bag, u) ==
  IF cs = {} THEN 0
  ELSE LET c == CHOOSE x \in cs : TRUE
       IN  (IF c.op = "add" /\ c.pc = "fetching" /\ c.url = u
              THEN CopiesIn(c, bag) ELSE 0)
           + FetchingOf(cs \ {c}, bag, u)

Fetching(u) == FetchingOf(BagToSet(calls), calls, u)

\* C4: the descriptor of a product is fetched at most once and its cache entry
\* written at most once: a request for it is issued only while none is in
\* flight and no entry is written (a request that failed fetched nothing), and
\* a completing request writes the entry only if there is none.
C4_FetchedAndWrittenOnce ==
  [][\A u \in Urls :
       /\ Fetching(u)' > Fetching(u) => (Fetching(u) = 0 /\ u \notin cache)
       /\ (\E c \in BagToSet(calls) : c.url = u /\ AddFetchDone(c, TRUE))
            => u \notin cache]_vars

\* ------------------------------------------- C5-C8: the shipping method
\* The shipping country, "" when no shipping address is set.
ShippingCountry ==
  IF shippingAddress = None THEN "" ELSE Get(shippingAddress).country

\* The shipping methods the settings configure for a country (the entries of
\* countrySettings.shippingMethods), none when the settings are not loaded or do
\* not have the country.
ConfiguredMethods(country) ==
  IF settings = None \/ country \notin DOMAIN Get(settings) THEN << >>
  ELSE Get(settings)[country].shippingMethods

ConfiguredKeys(country) ==
  { ConfiguredMethods(country)[i].key : i \in 1..Len(ConfiguredMethods(country)) }

\* C5: if a shipping method is selected, a shipping address is set and the
\* selected method is one of the keys of the shipping methods the settings
\* configure for its country.
C5_SelectedMethodIsConfigured ==
  IsSome(shippingMethod) =>
    /\ IsSome(shippingAddress)
    /\ Get(shippingMethod) \in ConfiguredKeys(ShippingCountry)

\* C6: with a shipping address set and the settings loaded,
\* selectShippingMethod(key) selects key when it is one of the keys configured
\* for the shipping country, and otherwise leaves the selected method as it is;
\* it raises no error.
C6_SelectsConfiguredKey ==
  (IsSome(shippingAddress) /\ IsSome(settings)) =>
    \A key \in MethodKeys :
      LET r == SelectShippingMethodResult(key)
      IN  /\ ~r.threw
          /\ r.shippingMethod = IF key \in ConfiguredKeys(ShippingCountry)
                                  THEN Some(key) ELSE shippingMethod

\* C7: every setShippingAddress call leaves the cart with no selected shipping
\* method.
C7_AddressClearsMethod ==
  [][\A data \in AddressInputs :
       SetShippingAddress(data) => shippingMethod' = None]_vars

\* The configured price, in the cart's currency, of the method with this key.
ConfiguredPrice(country, key) ==
  LET ms == ConfiguredMethods(country)
      i == CHOOSE j \in 1..Len(ms) : ms[j].key = key
  IN  ms[i].price[currency]

\* C8: total is the subtotal plus the configured price, in the cart's currency,
\* of the selected shipping method when one is selected (and configured for the
\* shipping country with a price in that currency), and the subtotal alone when
\* none is selected.
C8_TotalAddsShipping ==
  IF IsSome(shippingMethod)
    THEN (/\ Get(shippingMethod) \in ConfiguredKeys(ShippingCountry)
          /\ \E i \in 1..Len(ConfiguredMethods(ShippingCountry)) :
               /\ ConfiguredMethods(ShippingCountry)[i].key = Get(shippingMethod)
               /\ currency \in DOMAIN ConfiguredMethods(ShippingCountry)[i].price)
           => Total = [threw |-> FALSE,
                       value |-> Subtotal
                                 + ConfiguredPrice(ShippingCountry,
                                                   Get(shippingMethod))]
    ELSE Total = [threw |-> FALSE, value |-> Subtotal]

\* ------------------------------------------------------- C9, C10: tax
\* C9: tax is zero whenever no shipping address is set or the subtotal is zero,
\* whatever the line items, the settings and the selected method are.
C9_TaxZero ==
  (shippingAddress = None \/ Subtotal = 0) => Tax = [threw |-> FALSE, value |-> 0]

\* The cart holds a line item of a positive total, an invoice address in a
\* country with a tax rate and no shipping address.
C9_Witness_NoShippingAddress ==
  /\ shippingAddress = None
  /\ IsSome(invoiceAddress) /\ IsSome(settings)
  /\ Get(invoiceAddress).country \in DOMAIN Get(settings)
  /\ Subtotal > 0

\* The tax rate of the shipping country, 0 when there is none.
ShippingTaxrate ==
  IF settings = None \/ ShippingCountry \notin DOMAIN Get(settings) THEN 0
  ELSE Get(settings)[ShippingCountry].taxrate

SelectedIsPriced ==
  /\ IsSome(shippingMethod)
  /\ Get(shippingMethod) \in ConfiguredKeys(ShippingCountry)
  /\ \E i \in 1..Len(ConfiguredMethods(ShippingCountry)) :
       /\ ConfiguredMethods(ShippingCountry)[i].key = Get(shippingMethod)
       /\ currency \in DOMAIN ConfiguredMethods(ShippingCountry)[i].price

\* C11: when the shipping cost of the selected method is positive, tax is the
\* tax on the line items plus the tax extracted, at the country's rate, from
\* shipping cost * bucket subtotal / subtotal, rounded once; the shipping cost
\* is the configured price of the selected method.
C11_TaxIncludesShipping ==
  (/\ SelectedIsPriced
   /\ ConfiguredPrice(ShippingCountry, Get(shippingMethod)) > 0
   /\ ShippingTaxrate > 0
   /\ Subtotal # 0)
    => LET rate == RatOfInt(ShippingTaxrate)
           cost == RatOfInt(ConfiguredPrice(ShippingCountry, Get(shippingMethod)))
           part == RatOfInt(SumTotals(lineItems, 0))
       IN  Tax = [threw |-> FALSE,
                  value |-> RoundHalfUp(
                              RatAdd(SumTax(lineItems, rate, RatOfInt(0)),
                                     calcTax(RatMul(RatDiv(part, RatOfInt(Subtotal)),
                                                    cost), rate)))]

\* The shipping costs and tax rates the split of get tax() is applied to.
ShippingCosts == {1, 500, 700, 1499}
Taxrates == {7, 19, 20}

C13_OrderNeedsAddressAndMethod ==
  [][\A payment \in Payments :
       (shippingAddress = None \/ shippingMethod = None) =>
         /\ OrderPayloadResult.threw
         /\ OrderPayloadResult.err = IF shippingAddress = None
                                       THEN "MissingShippingAddress"
                                       ELSE "MissingShippingMethod"
         /\ OrderResult(payment).threw
         /\ OrderResult(payment).request = None
         /\ Order(payment) => UNCHANGED vars]_vars

\* A shipping address in a country of the settings is set, the cart holds a
\* line item of a positive total, and no method is selected: the getters tax
\* and total do not raise.
C13_Witness_AddressNoMethod ==
  /\ ShippingTaxrate > 0
  /\ shippingMethod = None
  /\ Subtotal > 0
  /\ ~Tax.threw /\ ~Total.threw

\* C14: order() completes only on the success status and otherwise raises an
\* error carrying the response body; the request it posts holds the currency,
\* the line items, the addresses, the shipping method, the shipping amount, the
\* tax, the total and the payment method, id and meta.
C14_OrderPostsFullPayload ==
  /\ \A status \in Statuses, body \in Bodies :
       OrderOutcome(status, body) = IF status = 201
                                      THEN [threw |-> FALSE, err |-> ""]
                                      ELSE [threw |-> TRUE, err |-> body]
  /\ \A c \in BagToSet(calls) :
       c.op = "order" =>
         LET request == Get(c.data)
         IN  /\ request.payload.currency = currency
             /\ Len(request.payload.lineItems) = Len(lineItems)
             /\ request.payload.shippingAddress = shippingAddress
             /\ request.payload.invoiceAddress = invoiceAddress
             /\ request.payload.shippingMethod = shippingMethod
             /\ IsSome(request.payload.shipping)
             /\ request.payload.tax = Tax.value
             /\ request.payload.total = Total.value
             /\ request.paymentMethod \in { x.method : x \in Payments }
             /\ request.paymentId \in { x.id : x \in Payments }

\* ------------------------------------------------------- C15: reset
\* C15: reset() leaves a cart with no line items, addresses, email or selected
\* method, whose subtotal, tax, shipping and total are 0, and persists it.
C15_ResetEmpties ==
  [][Reset =>
       /\ lineItems' = << >>
       /\ invoiceAddress' = None /\ shippingAddress' = None
       /\ email' = None /\ shippingMethod' = None
       /\ Subtotal' = 0
       /\ Tax' = [threw |-> FALSE, value |-> 0]
       /\ Total' = [threw |-> FALSE, value |-> 0]
       /\ \A method \in MethodKeys : Shipping(method)' = [threw |-> FALSE, value |-> 0]
       /\ storage' = Some(CartValue(currency', << >>, None, None, None))]_vars

\* The cart is empty and persisted as such after products were added (their
\* descriptors are cached) in the currency adopted from storage.
C15_Witness_EmptyAgain ==
  /\ cache # {} /\ currency = "USD"
  /\ lineItems = << >> /\ shippingAddress = None /\ invoiceAddress = None
  /\ email = None /\ shippingMethod = None
  /\ storage = Some(CartValue("USD", << >>, None, None, None))

\* ------------------------------------------------------- C16: remove
\* C16: remove() of the line item at an index removes that one and keeps the
\* others in their order, whatever line items are equal to it; remove() of a
\* line item the cart does not hold leaves the line items and the storage as
\* they are.
C16_RemovesThatItem ==
  [][/\ \A i \in 1..Len(lineItems) :
          Remove(i) =>
            /\ Len(lineItems') = Len(lineItems) - 1
            /\ \A j \in 1..Len(lineItems') :
                 lineItems'[j] = IF j < i THEN lineItems[j] ELSE lineItems[j + 1]
     /\ RemoveAbsent => UNCHANGED << lineItems, storage >>]_vars

\* The cart holds two equal line items that differ in meta and quantity, the
\* second of which can be removed by its reference.
C16_Witness_EqualPair ==
  /\ ~stackLineItems
  /\ Len(lineItems) = 2
  /\ LineItemEquals(lineItems[1], lineItems[2])
  /\ lineItems[1] # lineItems[2]
  /\ storage = Some(CartValue(currency, lineItems, invoiceAddress, shippingAddress, email))

\* ------------------------------------------------------- C17: persistence
\* setInvoiceAddress / setShippingAddress raise on this address.
AddressThrows(data) == data # None /\ CountryNameThrows(Get(data))

\* A mutating operation completes in this step: an add() that builds its line
\* item, remove() of a line item of the cart, reset(), setInvoiceAddress,
\* setShippingAddress, setEmail.
Mutates ==
  \/ \E c \in BagToSet(calls) : AddRuns(c) /\ BuildLineItem(c, Catalog(c.url)).ok
  \/ \E i \in 1..Len(lineItems) : Remove(i)
  \/ Reset
  \/ \E data \in AddressInputs : SetInvoiceAddress(data) /\ ~AddressThrows(data)
  \/ \E data \in AddressInputs : SetShippingAddress(data) /\ ~AddressThrows(data)
  \/ \E mail \in Emails : SetEmail(mail)

\* C17: after every mutating operation that completes, the persisted snapshot
\* is the cart's value: currency, line items, invoice address, shipping address
\* and email.
C17_SnapshotIsCartValue ==
  [][Mutates =>
       storage' = Some(CartValue(currency', lineItems', invoiceAddress',
                                 shippingAddress', email'))]_vars

\* A stacked line item (2/2 - 2/2 units) is persisted with its quantity, along
\* with an email and a shipping address.
C17_Witness_StackedPersisted ==
  /\ stackLineItems
  /\ Len(lineItems) = 1 /\ lineItems[1].quantity = 0
  /\ IsSome(email) /\ IsSome(shippingAddress)
  /\ storage = Some(CartValue(currency, lineItems, invoiceAddress, shippingAddress, email))

\* ------------------------------------------------------- C18: restore
\* opts.currency || 'EUR': the currency the cart is configured with.
ConfiguredCurrency == "EUR"

\* A restore() ends in this step, with the settings at hand or on the answer to
\* its settings request.
RestoreEnds ==
  \/ (RestoreCall /\ settings # None)
  \/ \E c \in BagToSet(calls), ok \in BOOLEAN : RestoreSettingsDone(c, ok)

\* C18: restore() changes the currency only to the stored one, and only when
\* the stored snapshot has line items; after a restore() a cart whose currency
\* is not the configured one holds a line item.
C18_RestoreAdoptsCurrency ==
  [][/\ RestoreCall =>
          (currency' # currency =>
             /\ IsSome(storage)
             /\ currency' = Get(storage).currency
             /\ Len(Get(storage).lineItems) > 0)
     /\ RestoreEnds =>
          (currency' # ConfiguredCurrency => Len(lineItems') > 0)]_vars

\* ------------------------------------------------------- C19: line totals
\* t is x = n / d (d > 0) rounded to the nearest integer, a tie going away from
\* zero.
IsRoundedHalfUp(t, n, d) ==
  IF n >= 0
    THEN t >= 0 /\ 2 * n - d < 2 * d * t /\ 2 * d * t <= 2 * n + d
    ELSE t <= 0 /\ 2 * (-n) - d < 2 * d * (-t) /\ 2 * d * (-t) <= 2 * (-n) + d

\* C19: the total of every line item of the cart is quantity * (unit price +
\* the sum of its option prices), rounded half up to whole cents.
C19_LineTotal ==
  \A i \in 1..Len(lineItems) :
    LET item == lineItems[i]
    IN  IsRoundedHalfUp(LineItemTotal(item),
                        item.quantity * SumPrices(item.options, item.price),
                        QtyScale)

\* A line item stacked to 3/2 units of 10.05: 15.075, that is 15.08.
C19_Witness_StackedTotal ==
  \E i \in 1..Len(lineItems) :
    /\ lineItems[i].quantity = 3
    /\ lineItems[i].price = 1005
    /\ LineItemTotal(lineItems[i]) = 1508

\* ------------------------------------------------------- C20: prices
\* C20: the LineItem constructor raises exactly on a price that is not
\* positive, add() builds no line item from an offer whose price is not
\* positive, and every line item of the cart has a positive price.
C20_PricesPositive ==
  /\ \A price \in -1..1 : LineItemThrows([price |-> price]) <=> price <= 0
  /\ \A in \in FailingAddInputs :
       LET data == Catalog(in.url)
       IN  (/\ data # None
            /\ PickOffer(Get(data), currency) # None
            /\ Get(PickOffer(Get(data), currency)).price <= 0)
             => ~BuildLineItem(Call("add", "", in, None), data).ok
  /\ \A i \in 1..Len(lineItems) : lineItems[i].price > 0

\* add("/z") has run on its descriptor (price 0) and the stored snapshot with a
\* price of 0 is still in storage, the settings loaded: the cart holds nothing.
C20_Witness_ZeroPriceRefused ==
  /\ "/z" \in cache
  /\ storage = Some(ZeroPriceSnapshot)
  /\ IsSome(settings)
  /\ calls = EmptyBag
  /\ lineItems = << >>

\* ------------------------------------------------------- C21: the offer
\* The indices of the offers of a descriptor that are in the cart's currency.
MatchingOffers(data) ==
  { i \in 1..Len(data.offers) : data.offers[i].priceCurrency = currency }

\* C21: add() prices the line item with the first offer of the descriptor that
\* is in the cart's currency (the single offer when it is), and leaves the line
\* items and the storage as they are when no offer is in the cart's currency.
C21_FirstMatchingOffer ==
  [][\A c \in BagToSet(calls) :
       (AddRuns(c) /\ Catalog(c.url) # None) =>
         LET data == Get(Catalog(c.url))
             b == BuildLineItem(c, Catalog(c.url))
         IN  /\ MatchingOffers(data) = {} =>
                  (~b.ok /\ UNCHANGED << lineItems, storage >>)
             /\ (MatchingOffers(data) # {} /\ b.ok) =>
                  /\ \A i \in MatchingOffers(data) :
                       (\A j \in MatchingOffers(data) : i <= j)
                         => b.item.price = data.offers[i].price
                  /\ \E k \in 1..Len(lineItems') :
                       /\ lineItems'[k].url = c.url
                       /\ lineItems'[k].price = b.item.price]_vars

\* The cart, in the currency adopted from storage, holds a line item of "/c" at
\* 9.00 (the first of its two USD offers) and one of "/s" at its single offer.
C21_Witness_FirstAndSingle ==
  /\ currency = "USD"
  /\ \E i, j \in 1..Len(lineItems) :
       /\ lineItems[i].url = "/c" /\ lineItems[i].price = 900
       /\ lineItems[j].url = "/s" /\ lineItems[j].price = 500

\* ------------------------------------------------------- C22: the settings
\* The settings requests in flight: each add() and restore() suspended on
\* fetchSettings() has issued one.
RECURSIVE SettingsRequestsOf(_, _)
SettingsRequestsOf(cs, bag) ==
  IF cs = {} THEN 0
  ELSE LET c == CHOOSE x \in cs : TRUE
       IN  (IF c.pc = "settings" THEN CopiesIn(c, bag) ELSE 0)
           + SettingsRequestsOf(cs \ {c}, bag)

SettingsRequests == SettingsRequestsOf(BagToSet(calls), calls)

\* C22: the settings are requested only while they are absent and no request
\* for them is in flight, so that at most one request is outstanding at a time.
C22_SettingsFetchedOnce ==
  [][SettingsRequests' > SettingsRequests =>
       (SettingsRequests = 0 /\ settings = None)]_vars

\* ------------------------------------- C23-C27: the resolution of options
\* The values a buyer may hand in for a sku of the product "/c" ("nope" is no
\* option of it): numbers inside and outside the constraints, booleans, and
\* the key present with no value.
SelectionValues(sku) ==
  CASE sku = "size" -> {Undef, Num(3), Num(4), Num(5), Num(11), Bool(TRUE)}
    [] sku = "engrave" -> {Undef, Num(0), Num(2), Num(5)}
    [] sku = "gift" -> {Bool(TRUE), Bool(FALSE)}
    [] OTHER -> {IF sku = "wrap" THEN Bool(TRUE) ELSE Num(1)}

\* The options arguments of add(), as Object.entries lists them: every order of
\* every choice of at most MaxSelected distinct skus, each with one of its
\* values (of these, size 4 and a key with no value are only selected alone,
\* by C24 and C25).
Selections ==
  LET Entries == { Selection(sku, value) :
                     sku \in {"size", "engrave", "gift", "wrap", "nope"},
                     value \in {Num(0), Num(1), Num(2), Num(3), Num(5), Num(11),
                                Bool(TRUE), Bool(FALSE)} }
      Offered == { e \in Entries : e.value \in SelectionValues(e.sku) }
  IN  { sel \in UNION { [1..n -> Offered] : n \in 0..MaxSelected } :
          \A i, j \in 1..Len(sel) : i # j => sel[i].sku # sel[j].sku }

\* The options of the product "/c" and what add() resolves a selection of them
\* to, at the offer in the cart's currency.
CustomOptions == Get(Catalog("/c")).options

Resolved(sel) == ResolveOptions(CustomOptions, sel, 1, {}, << >>, currency)

\* C23: whenever a selected option carries an incompatible constraint naming a
\* sku that is among the selections, the resolution fails with the
\* incompatible-selection error, in every order of the selections.
C23_IncompatibleInEveryOrder ==
  \A sel \in Selections :
    (\E i \in 1..Len(sel) :
       /\ FindOption(CustomOptions, sel[i].sku) # 0
       /\ HasIncompatible(CustomOptions[FindOption(CustomOptions, sel[i].sku)], sel))
      => (~Resolved(sel).ok /\ Resolved(sel).err = "IncompatibleSelection")

\* Whether a constraint matches the offer currency and a selected value: a
\* number constraint when the value is unspecified, is its fixed value, or is a
\* number within [min, max] that is a multiple of step; a boolean constraint
\* when it fixes no value (or false) or the value is the fixed one.
Matches(c, value) ==
  /\ c.kind \in {"number", "boolean"}
  /\ c.currency = currency
  /\ IF c.kind = "number"
       THEN \/ value = Undef
            \/ value = c.value
            \/ /\ value.t = "number"
               /\ c.min # Undefined => value.n >= c.min
               /\ c.max # Undefined => value.n <= c.max
               /\ c.step # Undefined => \E q \in 0..Abs(value.n) : q * c.step = Abs(value.n)
       ELSE c.value = Bool(FALSE) \/ value = c.value

\* C24: a selection of one option is priced by the first constraint of the
\* option, in catalog order, that matches the offer currency and the value, and
\* fails with the unsupported-value error when no constraint matches.
C24_FirstMatchingConstraint ==
  \A o \in 1..Len(CustomOptions) : \A value \in SelectionValues(CustomOptions[o].sku) :
    LET cs == CustomOptions[o].constraints
        r == Resolved(<< Selection(CustomOptions[o].sku, value) >>)
        matching == { k \in 1..Len(cs) : Matches(cs[k], value) }
    IN  /\ matching = {} => (~r.ok /\ r.err = "UnsupportedValue")
        /\ \A k \in matching :
             (\A j \in matching : k <= j) =>
               (r.ok /\ r.options[1].price = cs[k].price)

\* The price of the first constraint that prices selection i of sel.
BasePrice(sel, i) ==
  LET cs == CustomOptions[FindOption(CustomOptions, sel[i].sku)].constraints
  IN  cs[FindConstraint(cs, 1, sel[i].value, currency)].price

\* Whether adjustment c concerns the selections: its currency is the offer's and
\* its dependency is selected, not as false; `strict` reads a declared
\* predicate as never satisfied by a dependency that is no number.
Concerns(c, sel, strict) ==
  /\ c.kind = "adjustment"
  /\ c.currency = currency
  /\ InSelections(sel, c.option)
  /\ LET dep == SelectedValue(sel, c.option)
     IN  /\ dep # Bool(FALSE)
         /\ c.pred # "" =>
              IF dep.t = "number" THEN PredicateHolds(c, dep.n) ELSE ~strict

\* The sum of the prices of the constraints of cs at the indices in js.
PriceOf(cs, js) ==
  SumPrices([j \in 1..Len(cs) |-> [price |-> IF j \in js THEN cs[j].price ELSE 0]], 0)

\* C25, as stated: the resolved price of every selected option is the price of
\* its constraint plus the prices of exactly those of its adjustments whose
\* currency is the offer's, whose dependency is selected and not false, and
\* whose predicate, if declared, the dependency's value satisfies.
C25_AdjustedExactlyWhen ==
  \A sel \in Selections :
    Resolved(sel).ok =>
      \A i \in 1..Len(sel) :
        LET cs == CustomOptions[FindOption(CustomOptions, sel[i].sku)].constraints
        IN  Resolved(sel).options[i].price =
              BasePrice(sel, i)
                + PriceOf(cs, { j \in 1..Len(cs) : Concerns(cs[j], sel, TRUE) })

\* C25, amended: for every adjustment of an option, every value the option is
\* selected with, its dependency not selected or selected with any value, and
\* the tags in `used` consumed, the adjustment loop adds the price of the
\* adjustment exactly when the option is not itself selected as false, the
\* currency of the adjustment is the offer's, its dependency is selected and
\* not as false, its predicate, if declared, holds of the dependency's value
\* when that is a number, and its tag, if any, is not consumed; otherwise it
\* adds nothing.
C25_AdjustedWhenConcerned ==
  \A o \in 1..Len(CustomOptions) :
    \A j \in 1..Len(CustomOptions[o].constraints) :
      LET c == CustomOptions[o].constraints[j]
      IN  c.kind = "adjustment" =>
            \A value \in SelectionValues(CustomOptions[o].sku) :
              \A sel \in { << Selection(CustomOptions[o].sku, value) >> }
                           \cup { << Selection(CustomOptions[o].sku, value),
                                     Selection(c.option, dep) >> :
                                    dep \in SelectionValues(c.option) } :
                \A used \in SUBSET {"promo"} :
                  Adjust(<< c >>, 1, 0, used, value, sel, currency).price =
                    IF /\ value # Bool(FALSE)
                       /\ Concerns(c, sel, FALSE)
                       /\ c.unique \notin used
                      THEN c.price ELSE 0

\* The cart holds a line item of "/c" whose option size, selected with engrave
\* 2, carries the adjustment for engrave >= 2 (4.00 + 0.30), and one whose
\* option gift, selected as false, carries none.
C25_Witness_Adjusted ==
  /\ \E i \in 1..Len(lineItems) : \E k \in 1..Len(lineItems[i].options) :
       /\ lineItems[i].options[k].sku = "size"
       /\ lineItems[i].options[k].price = 430
  /\ \E i \in 1..Len(lineItems) : \E k \in 1..Len(lineItems[i].options) :
       /\ lineItems[i].options[k].sku = "gift"
       /\ lineItems[i].options[k].value = Bool(FALSE)
       /\ lineItems[i].options[k].price = 0

\* C26: within one resolution pass, of the adjustments that carry the same
\* uniqueness tag only the first applicable one, in the order of the selections
\* and then of the constraints, is added to a price; an adjustment that is not
\* applicable does not keep a later one from being added.
C26_OneAdjustmentPerTag ==
  \A sel \in Selections :
    LET r == Resolved(sel)
        cs(i) == CustomOptions[FindOption(CustomOptions, sel[i].sku)].constraints
        Applicable(i, j) ==
          sel[i].value # Bool(FALSE) /\ Concerns(cs(i)[j], sel, FALSE)
        First(i, j) ==
          \A k \in 1..i : \A l \in 1..Len(cs(k)) :
            (k < i \/ l < j) =>
              ~(cs(k)[l].unique = cs(i)[j].unique /\ Applicable(k, l))
    IN  r.ok =>
          \A i \in 1..Len(sel) :
            r.options[i].price =
              BasePrice(sel, i)
                + PriceOf(cs(i), { j \in 1..Len(cs(i)) :
                                     /\ Applicable(i, j)
                                     /\ cs(i)[j].unique # "" => First(i, j) })

\* The cart holds a line item of "/c" selected with size 5 and engrave 2, in
\* this order: the adjustment of size tagged "promo" was added (4.00 + 0.30)
\* and the one of engrave with the same tag, applicable as well, was not (1.00).
C26_Witness_FirstTaggedWins ==
  \E i \in 1..Len(lineItems) :
    /\ Len(lineItems[i].options) = 2
    /\ lineItems[i].options[1].sku = "size" /\ lineItems[i].options[1].price = 430
    /\ lineItems[i].options[2].sku = "engrave" /\ lineItems[i].options[2].price = 100

\* Whether sku is no option of the product "/c".
Unknown(sku) == \A o \in 1..Len(CustomOptions) : CustomOptions[o].sku # sku

\* C27, as stated: the resolution of selections that contain a sku no option
\* of the product has fails with the unknown-option error.
C27_UnknownOptionFails ==
  \A sel \in Selections :
    (\E i \in 1..Len(sel) : Unknown(sel[i].sku)) =>
      (~Resolved(sel).ok /\ Resolved(sel).err = "UnknownOption")

\* C27, amended: the resolution of selections that contain a sku no option of
\* the product has fails, with the unknown-option error unless a selection
\* before the first such sku is itself refused (its option incompatible with a
\* selected sku, or its value matched by no constraint), and then not with the
\* unknown-option error; a successful resolution emits one priced option per
\* selection, with its sku and value, in the order of the selections.
C27_UnknownOptionFailsInOrder ==
  \A sel \in Selections :
    LET Refused(i) ==
          LET o == CustomOptions[CHOOSE k \in 1..Len(CustomOptions) :
                                   CustomOptions[k].sku = sel[i].sku]
          IN  \/ \E k \in 1..Len(o.constraints) :
                   /\ o.constraints[k].kind = "incompatible"
                   /\ InSelections(sel, o.constraints[k].option)
              \/ \A k \in 1..Len(o.constraints) : ~Matches(o.constraints[k], sel[i].value)
        r == Resolved(sel)
    IN  /\ \A u \in 1..Len(sel) :
             (Unknown(sel[u].sku) /\ \A i \in 1..(u - 1) : ~Unknown(sel[i].sku)) =>
               /\ ~r.ok
               /\ r.err = "UnknownOption" <=> \A i \in 1..(u - 1) : ~Refused(i)
        /\ r.ok =>
             /\ Len(r.options) = Len(sel)
             /\ \A i \in 1..Len(sel) :
                  /\ r.options[i].sku = sel[i].sku
                  /\ r.options[i].value = sel[i].value
                  /\ r.options[i].price \in Int

\* The cart holds a line item of "/c" whose options are gift and size, with
\* the values selected and in the order selected.
C27_Witness_OptionPerSelection ==
  \E i \in 1..Len(lineItems) :
    /\ Len(lineItems[i].options) = 2
    /\ lineItems[i].options[1].sku = "gift"
    /\ lineItems[i].options[1].value = Bool(FALSE)
    /\ lineItems[i].options[2].sku = "size"
    /\ lineItems[i].options[2].value = Num(3)

\* ------------------------------------------------- C28: overlapping add()
\* C28: with stackLineItems enabled, whenever an add() runs to its end, however
\* it overlaps with other calls, the cart then holds exactly one line item
\* equal to the one added, and its quantity is the added quantity plus that of
\* the equal line item the cart held before (none: zero).
C28_NoLostIncrement ==
  [][\A c \in BagToSet(calls) :
       LET b == BuildLineItem(c, Catalog(c.url))
           held == { i \in 1..Len(lineItems) : LineItemEquals(lineItems[i], b.item) }
       IN  (stackLineItems /\ AddRuns(c) /\ b.ok) =>
             \E k \in 1..Len(lineItems') :
               /\ LineItemEquals(lineItems'[k], b.item)
               /\ \A j \in 1..Len(lineItems') :
                    LineItemEquals(lineItems'[j], b.item) => j = k
               /\ lineItems'[k].quantity =
                    c.qty + (IF held = {} THEN 0
                             ELSE lineItems[CHOOSE i \in held : TRUE].quantity)]_vars

\* Two add("/a") for equal line items overlap: the first has run to its end
\* (it wrote the cache and its line item is in the cart) while the second,
\* called before that, is still waiting for the descriptor it requested.
C28_Witness_Overlapping ==
  /\ stackLineItems
  /\ "/a" \in cache
  /\ Len(lineItems) = 1
  /\ lineItems[1].url = "/a" /\ lineItems[1].options = << >>
  /\ \E c \in BagToSet(calls) :
       /\ c.op = "add" /\ c.pc = "fetching"
       /\ c.url = "/a" /\ c.options = << >>

\* ------------------------------------------- C29: line items need settings
\* C29: a cart that holds a line item has its settings loaded, so that get tax,
\* which reads the settings only with a shipping address set and a subtotal
\* other than zero, never finds them absent; and no step unloads the settings.
C29_ItemsNeedSettings ==
  /\ [](/\ Len(lineItems) > 0 => settings # None
        /\ (shippingAddress # None /\ Subtotal # 0) => settings # None)
  /\ [][settings # None => settings' # None]_vars

\* The cart holds a line item and a shipping address with the settings loaded,
\* and get tax, reading the settings, yields a tax.
C29_Witness_TaxOfRestored ==
  /\ Len(lineItems) > 0
  /\ shippingAddress # None
  /\ settings # None
  /\ ~Tax.threw /\ Tax.value > 0

\* ---------------------------------------- C30: add() during a restore()
\* C30: a restore() suspended on the settings request keeps, when it completes,
\* every line item the cart holds by then.  (Each of them was added after the
\* restore() was called: it suspends only without settings, and a cart
\* without settings holds no line item.)
C30_RestoreKeepsAdded ==
  [][\A c \in BagToSet(calls), ok \in BOOLEAN :
       RestoreSettingsDone(c, ok) =>
         \A i \in 1..Len(lineItems) :
           \E j \in 1..Len(lineItems') : lineItems'[j] = lineItems[i]]_vars

\* ------------------------------------------- C31: persist, then restore
\* The page is loaded anew: new Cart(opts, settings?) with the same options,
\* with or without settings handed in.  The calls of the page left are gone;
\* the storage stays.
NewCart ==
  /\ currency' = ConfiguredCurrency
  /\ settings' \in {None, Some(TheSettings)}
  /\ cache' = {}
  /\ lineItems' = << >>
  /\ email' = None
  /\ invoiceAddress' = None
  /\ shippingAddress' = None
  /\ shippingMethod' = None
  /\ calls' = EmptyBag
  /\ UNCHANGED << stackLineItems, storage >>

\* add() calls for a product with a sku and for one without.
ReloadAddInputs ==
  { AddInput("/a", 2, "m1", << Selection("size", Num(1)) >>),
    AddInput("/k", 2, "m1", << >>) }

\* A session that fills the cart and sets the shipping address and the email,
\* each call awaited, and reloads of the page.
NextReload ==
  \/ Idle /\ \E in \in ReloadAddInputs : AddCall(in)
  \/ Idle /\ RestoreCall
  \/ Idle /\ \E data \in AddressInputs : SetShippingAddress(data)
  \/ Idle /\ \E mail \in Emails : SetEmail(mail)
  \/ Idle /\ NewCart
  \/ Completions

SpecReload == Init /\ [][NextReload]_vars

\* C31: when a restore() comes to its end in a fresh cart (the settings at
\* hand, or its settings request answered), the cart holds the line items of
\* the persisted snapshot, all of them and in their order, its addresses and
\* its email, and no shipping method is selected.
C31_RestoredAsPersisted ==
  [][(/\ storage # None
      /\ lineItems = << >> /\ shippingMethod = None
      /\ email = None /\ invoiceAddress = None /\ shippingAddress = None
      /\ \/ (RestoreCall /\ settings # None)
         \/ \E c \in BagToSet(calls) : RestoreSettingsDone(c, TRUE))
       => /\ lineItems' = Get(storage).lineItems
          /\ invoiceAddress' = Get(storage).invoiceAddress
          /\ shippingAddress' = Get(storage).shippingAddress
          /\ email' = Get(storage).email
          /\ Subtotal' = SumTotals(Get(storage).lineItems, 0)
          /\ shippingMethod' = None]_vars

====
